---- MODULE Spec2Model ----
(***************************************************************************)
(* State-machine model of the cooperative minimum spanning tree            *)
(* environment, jumanji/environments/routing/cmst/env.py                   *)
(* (class CoopMinSpanTree): reset, step and the helpers step calls, with    *)
(* the TimeStep constructors of jumanji/types.py.                          *)
(*                                                                         *)
(* Arrays are functions over 0-based index ranges, as in the source.       *)
(* jax indexing is modelled by what it does: a read with an index outside  *)
(* the array wraps a negative index once and then clamps (GatherIndex), a  *)
(* write outside the array is dropped (ScatterSet).                        *)
(***************************************************************************)
EXTENDS Integers, Sequences, FiniteSets, TLC

\* ------------------------------------------------------------ constants
\* Action encoding and node sentinels (class docstring, "constants definitions").
INVALID_CHOICE == -1
INVALID_TIE_BREAK == -2
INVALID_ALREADY_TRAVERSED == -3
INVALID_NODE == -1
UTILITY_NODE == -1
EMPTY_NODE == -1
DUMMY_NODE == -10

\* StepType (jumanji/types.py)
FIRST == 0
MID == 1
LAST == 2

\* reward_values, the default of __init__, in hundredths: the reward for a
\* connection, for no connection and for an invalid choice
RewardConnected == 10
RewardTimeStep == -3
RewardNoop == -1

\* Constructor arguments of the modelled instance.
NumNodes == 5
NumAgents == 2
NumNodesPerAgent == 2
StepLimit == 3

\* Steps taken in one episode by the model (the code has no such bound: a
\* caller may keep calling step after the last timestep).
MaxSteps == 4

Nodes == 0..(NumNodes - 1)
Agents == 0..(NumAgents - 1)
Slots == 0..(StepLimit - 1)
TargetIdx == 0..(NumNodesPerAgent - 1)
\* action_spec: one index in 0..num_nodes-1 per agent
ActionSet == 0..(NumNodes - 1)

\* Steps taken in one episode when the action vectors are not restricted to
\* action_spec, and the values such a vector holds.
MaxStepsWide == 2
ActionSetWide == (-3)..NumNodes

\* Steps taken in one episode on the second instance of the generator.
MaxStepsB == 2

VARIABLES
    node_types,             \* state.node_types
    adj_matrix,             \* state.adj_matrix
    nodes_to_connect,       \* state.nodes_to_connect
    connected_nodes,        \* state.connected_nodes
    connected_nodes_index,  \* state.connected_nodes_index
    position_index,         \* state.position_index
    positions,              \* state.positions
    node_edges,             \* state.node_edges
    action_mask,            \* state.action_mask
    finished_agents,        \* state.finished_agents
    step_count,             \* state.step_count
    key,                    \* state.key
    request,                \* the action vector passed to the last step
    outcome,                \* the action codes the last step resolved
    next_nodes,             \* the destination nodes the last step resolved
    agent_permutation,      \* the permutation drawn by the last step
    timestep,               \* the kind of TimeStep returned last
    config,                 \* the arguments passed to __init__
    construction,           \* what __init__ did: "pending", "constructed", "raised"
    agent_rewards,          \* what self._reward_fn returned in the last step
    arguments,              \* the arguments of the last TimeStep constructor call
    step_type,              \* timestep.step_type
    reward,                 \* timestep.reward
    discount                \* timestep.discount

vars == <<node_types, adj_matrix, nodes_to_connect, connected_nodes,
          connected_nodes_index, position_index, positions, node_edges,
          action_mask, finished_agents, step_count, key, request, outcome,
          next_nodes, agent_permutation, timestep, config, construction,
          agent_rewards, arguments, step_type, reward, discount>>

\* the fields of the TimeStep returned last, and what it was built from
returned == <<agent_rewards, arguments, step_type, reward, discount>>

\* ------------------------------------------------------------ jax arrays
\* array[i] for an array of length n: a negative index counts from the end,
\* and the result is clamped into the array.
GatherIndex(i, n) ==
    LET j == IF i < 0 THEN i + n ELSE i
    IN  IF j < 0 THEN 0 ELSE IF j > n - 1 THEN n - 1 ELSE j

\* array.at[i].set(v) for an array over 0..n-1: a negative index counts from
\* the end, and a write outside the array is dropped.
ScatterSet(array, i, n, v) ==
    LET j == IF i < 0 THEN i + n ELSE i
    IN  IF j >= 0 /\ j <= n - 1 THEN [array EXCEPT ![j] = v] ELSE array

\* ------------------------------------------------------------ PRNG
RECURSIVE Factorial(_)
Factorial(n) == IF n <= 1 THEN 1 ELSE n * Factorial(n - 1)

NumPermutations == Factorial(NumAgents)

RemoveAt(s, i) == [k \in 1..(Len(s) - 1) |-> IF k < i THEN s[k] ELSE s[k + 1]]

RECURSIVE Unrank(_, _)
Unrank(k, items) ==
    IF Len(items) = 0 THEN <<>>
    ELSE LET n == Len(items)
             i == (k % n) + 1
         IN  <<items[i]>> \o Unrank(k \div n, RemoveAt(items, i))

\* jax.random.split(key): the key's stream is a number whose digits (base
\* NumPermutations) are the draws still to come; the sub-key handed to the
\* step is the lowest digit, the key kept in the state is the rest.
Split(k) == [key |-> k \div NumPermutations, step_key |-> k % NumPermutations]

\* a permutation that is drawn from the sub-key and the number of steps taken
PermutationFromKeyAndCount(step_key) ==
    LET p == Unrank(step_key + step_count, [a \in 1..NumAgents |-> a - 1])
    IN  [index \in Agents |-> p[index + 1]]

\* jax.random.permutation(step_key, arange(num_agents)): a function of the
\* sub-key alone; position index (0-based) -> agent.
Permutation(step_key) ==
    LET p == Unrank(step_key, [a \in 1..NumAgents |-> a - 1])
    IN  [index \in Agents |-> p[index + 1]]

RECURSIVE Power(_, _)
Power(b, e) == IF e = 0 THEN 1 ELSE b * Power(b, e - 1)

Keys == 0..(Power(NumPermutations, MaxSteps) - 1)

\* ------------------------------------------------------------ generator
\* The instances the generator hands to reset: node types (owner agent, or
\* UTILITY_NODE), a connected symmetric graph, disjoint target groups.
GraphTypes == [n \in Nodes |-> IF n = 4 THEN UTILITY_NODE ELSE n \div 2]

\* Nodes 0, 1 belong to agent 0, nodes 2, 3 to agent 1, node 4 is a utility
\* node next to every owned node; 0-2 joins the two groups.
EdgesA == {{0, 1}, {0, 4}, {2, 4}, {1, 4}, {3, 4}, {0, 2}, {2, 3}}
GraphEdges == {EdgesA}

\* A second instance, the first one with the nodes renamed: nodes 3, 4 belong
\* to agent 0, nodes 0, 1 to agent 1, and the utility node is node 2, so the
\* last node of the arrays is an owned node.
GraphTypesB ==
    [n \in Nodes |-> IF n = 2 THEN UTILITY_NODE ELSE IF n > 2 THEN 0 ELSE 1]
EdgesB == {{4, 3}, {4, 2}, {0, 2}, {3, 2}, {1, 2}, {4, 0}, {0, 1}}

\* A third instance, the first one with one more edge: node 0 is joined to
\* itself (the generator is an argument of the constructor, and nothing in
\* reset or step asks for a graph without self-loops).
EdgesLoop == EdgesA \cup {{0}}

\* Steps taken in one episode on the third instance.
MaxStepsLoop == 2

AdjMatrix(edges) == [v \in Nodes |-> [w \in Nodes |-> {v, w} \in edges]]

\* node_edges of the generator: A_vw = w for an edge, EMPTY_NODE for none.
InitialNodeEdges(adj) ==
    [v \in Nodes |-> [w \in Nodes |-> IF adj[v][w] THEN w ELSE EMPTY_NODE]]

TargetsOf(types, agent) ==
    LET own == {n \in Nodes : types[n] = agent}
    IN  {t \in [TargetIdx -> own] : \A x, y \in TargetIdx : x # y => t[x] # t[y]}

\* ------------------------------------------------------------ helpers of step
\* update_edges with the mask put on the row of the node (its outgoing edges)
\* instead of on the entries that name it
UpdateEdgesRow(edges, node) ==
    [v \in Nodes |-> [w \in Nodes |-> IF v = node THEN EMPTY_NODE ELSE edges[v][w]]]

\* update_edges that also drops every edge of a node that has no edge to the
\* claimed node
UpdateEdgesAndNeighbours(edges, node) ==
    [v \in Nodes |-> [w \in Nodes |->
        IF edges[v][w] = node \/ edges[v][node] = EMPTY_NODE
        THEN EMPTY_NODE ELSE edges[v][w]]]

\* _update_active_edges.update_edges
UpdateEdges(edges, node) ==
    [v \in Nodes |-> [w \in Nodes |->
        IF edges[v][w] = node THEN edges[v][w] * 0 - 1 ELSE edges[v][w]]]

\* the inner loop of _update_active_edges without the test of the node's
\* type: the node an agent stands on is masked whatever it is
RECURSIVE UpdateActiveEdgesInnerAnyNode(_, _, _, _, _)
UpdateActiveEdgesInnerAnyNode(active, agent, agent2, position, types) ==
    IF agent2 >= NumAgents THEN active
    ELSE LET node == position[agent]
             upd  == IF agent # agent2
                     THEN [active EXCEPT ![agent2] = UpdateEdges(active[agent2], node)]
                     ELSE active
         IN  UpdateActiveEdgesInnerAnyNode(upd, agent, agent2 + 1, position, types)

\* the inner loop of _update_active_edges over agent2, for one agent
RECURSIVE UpdateActiveEdgesInner(_, _, _, _, _)
UpdateActiveEdgesInner(active, agent, agent2, position, types) ==
    IF agent2 >= NumAgents THEN active
    ELSE LET node == position[agent]
             cond == types[node] = UTILITY_NODE
             upd  == IF agent # agent2 /\ cond
                     THEN [active EXCEPT ![agent2] = UpdateEdges(active[agent2], node)]
                     ELSE active
         IN  UpdateActiveEdgesInner(upd, agent, agent2 + 1, position, types)

RECURSIVE UpdateActiveEdgesOuter(_, _, _, _)
UpdateActiveEdgesOuter(active, agent, position, types) ==
    IF agent >= NumAgents THEN active
    ELSE UpdateActiveEdgesOuter(
             UpdateActiveEdgesInner(active, agent, 0, position, types),
             agent + 1, position, types)

\* _update_active_edges that masks the graph's full edge array afresh on each
\* call instead of the views it was given
UpdateActiveEdgesFromGraph(edges, position, types) ==
    UpdateActiveEdgesOuter([a \in Agents |-> InitialNodeEdges(adj_matrix)],
                           0, position, types)

\* _update_active_edges returning the array it was given instead of the copy
\* it updated
UpdateActiveEdgesStale(edges, position, types) == edges

\* _update_active_edges
UpdateActiveEdges(edges, position, types) ==
    UpdateActiveEdgesOuter(edges, 0, position, types)

\* an action mask read from the graph's adjacency matrix instead of the
\* agents' views
UpdateActionMaskFromGraph(edges, position, finished) ==
    [agent \in Agents |-> [n \in Nodes |->
        adj_matrix[position[agent]][n] /\ ~finished[agent]]]

\* _update_action_mask
UpdateActionMask(edges, position, finished) ==
    [agent \in Agents |-> [n \in Nodes |->
        (edges[agent][position[agent]][n] # EMPTY_NODE) /\ ~finished[agent]]]

\* _get_agent_node that takes the requested index for the node, whether or
\* not the view has the edge
GetAgentNodeAnyIndex(edges, position, action) == GatherIndex(action, NumNodes)

\* _trim_duplicated_invalid_actions._get_agent_node
GetAgentNode(edges, position, action) ==
    edges[position][GatherIndex(action, NumNodes)]

\* the loop body without the record of the granted node in added_nodes
ModifyActionWithoutClaim(arg, action, nodes, perm) ==
    LET agent_i == perm[arg.index]
        is_invalid_node == IF nodes[agent_i] = EMPTY_NODE THEN 1 ELSE 0
        node_is_not_selected ==
            IF \A a \in Agents : arg.added_nodes[a] # nodes[agent_i] THEN 1 ELSE 0
        branch == is_invalid_node + node_is_not_selected * 2
    IN  CASE branch = 0 ->
                [added_nodes |-> [arg.added_nodes EXCEPT ![agent_i] = INVALID_TIE_BREAK],
                 new_actions |-> [arg.new_actions EXCEPT ![agent_i] = INVALID_TIE_BREAK],
                 index |-> arg.index + 1]
          [] branch = 2 ->
                [added_nodes |-> arg.added_nodes,
                 new_actions |-> [arg.new_actions EXCEPT ![agent_i] = action[agent_i]],
                 index |-> arg.index + 1]
          [] OTHER -> [arg EXCEPT !.index = arg.index + 1]

\* the loop body visiting the agents in index order, not in the permutation's
ModifyActionInAgentOrder(arg, action, nodes, perm) ==
    LET agent_i == arg.index
        is_invalid_node == IF nodes[agent_i] = EMPTY_NODE THEN 1 ELSE 0
        node_is_not_selected ==
            IF \A a \in Agents : arg.added_nodes[a] # nodes[agent_i] THEN 1 ELSE 0
        branch == is_invalid_node + node_is_not_selected * 2
    IN  CASE branch = 0 ->
                [added_nodes |-> [arg.added_nodes EXCEPT ![agent_i] = INVALID_TIE_BREAK],
                 new_actions |-> [arg.new_actions EXCEPT ![agent_i] = INVALID_TIE_BREAK],
                 index |-> arg.index + 1]
          [] branch = 2 ->
                [added_nodes |-> [arg.added_nodes EXCEPT ![agent_i] = nodes[agent_i]],
                 new_actions |-> [arg.new_actions EXCEPT ![agent_i] = action[agent_i]],
                 index |-> arg.index + 1]
          [] OTHER -> [arg EXCEPT !.index = arg.index + 1]

\* one iteration of the while_loop of _trim_duplicated_invalid_actions
ModifyActionIfAgentTargetNodeIsSelected(arg, action, nodes, perm) ==
    LET agent_i == perm[arg.index]
        is_invalid_node == IF nodes[agent_i] = EMPTY_NODE THEN 1 ELSE 0
        node_is_not_selected ==
            IF \A a \in Agents : arg.added_nodes[a] # nodes[agent_i] THEN 1 ELSE 0
        branch == is_invalid_node + node_is_not_selected * 2
    IN  CASE branch = 0 ->
                [added_nodes |-> [arg.added_nodes EXCEPT ![agent_i] = INVALID_TIE_BREAK],
                 new_actions |-> [arg.new_actions EXCEPT ![agent_i] = INVALID_TIE_BREAK],
                 index |-> arg.index + 1]
          [] branch = 2 ->
                [added_nodes |-> [arg.added_nodes EXCEPT ![agent_i] = nodes[agent_i]],
                 new_actions |-> [arg.new_actions EXCEPT ![agent_i] = action[agent_i]],
                 index |-> arg.index + 1]
          [] OTHER -> [arg EXCEPT !.index = arg.index + 1]

\* the while_loop of _trim_duplicated_invalid_actions
RECURSIVE TieBreakLoop(_, _, _, _)
TieBreakLoop(arg, action, nodes, perm) ==
    IF arg.index < NumAgents
    THEN TieBreakLoop(ModifyActionIfAgentTargetNodeIsSelected(arg, action, nodes, perm),
                      action, nodes, perm)
    ELSE arg

\* _trim_duplicated_invalid_actions.mask_visited_nodes
MaskVisitedNodes(node_visited, oldaction) ==
    IF node_visited # EMPTY_NODE THEN INVALID_ALREADY_TRAVERSED ELSE oldaction

\* the finished mask left out
MaskFinishedNone(final_actions, finished) == final_actions

\* the last statement of _trim_duplicated_invalid_actions
MaskFinished(final_actions, finished) ==
    [agent \in Agents |->
        final_actions[agent] * (IF finished[agent] THEN 0 ELSE 1)
            - (IF finished[agent] THEN 1 ELSE 0)]

\* _trim_duplicated_invalid_actions after nodes and agent_permutation are
\* computed: the while_loop, the visited mask, the finished mask
TrimResolved(action, nodes, perm) ==
    LET looped == TieBreakLoop(
                      [added_nodes |-> [a \in Agents |-> DUMMY_NODE],
                       new_actions |-> [a \in Agents |-> INVALID_CHOICE],
                       index |-> 0],
                      action, nodes, perm).new_actions
        masked == [agent \in Agents |->
                      MaskVisitedNodes(
                          connected_nodes_index[agent][GatherIndex(nodes[agent], NumNodes)],
                          looped[agent])]
    IN  [final_actions |-> MaskFinished(masked, finished_agents),
         nodes |-> nodes,
         agent_permutation |-> perm]

\* _trim_duplicated_invalid_actions, on the current state
TrimDuplicatedInvalidActions(action, step_key) ==
    TrimResolved(action,
                 [agent \in Agents |->
                     GetAgentNode(node_edges[agent], positions[agent], action[agent])],
                 Permutation(step_key))

\* _update_conected_nodes that starts connected_nodes_index afresh and marks
\* only the new node
UpdateConectedNodesForgets(conn_nodes, conn_index, node, index) ==
    [connected_nodes |-> ScatterSet(conn_nodes, index + 1, StepLimit, node),
     connected_nodes_index |->
         ScatterSet([n \in Nodes |-> EMPTY_NODE], node, NumNodes, node),
     position |-> node,
     position_index |-> index + 1]

\* _update_conected_nodes that leaves connected_nodes_index as it was
UpdateConectedNodesUnmarked(conn_nodes, conn_index, node, index) ==
    [connected_nodes |-> ScatterSet(conn_nodes, index + 1, StepLimit, node),
     connected_nodes_index |-> conn_index,
     position |-> node,
     position_index |-> index + 1]

\* _update_conected_nodes
UpdateConectedNodes(conn_nodes, conn_index, node, index) ==
    [connected_nodes |-> ScatterSet(conn_nodes, index + 1, StepLimit, node),
     connected_nodes_index |-> ScatterSet(conn_index, node, NumNodes, node),
     position |-> node,
     position_index |-> index + 1]

\* step_agent_fn that also treats INVALID_ALREADY_TRAVERSED as no move
StepAgentFnTraversedStays(conn_nodes, conn_index, action, node, indices, agent_id) ==
    LET is_invalid_choice == \/ action = INVALID_CHOICE
                             \/ action = INVALID_TIE_BREAK
                             \/ action = INVALID_ALREADY_TRAVERSED
        is_valid == ~is_invalid_choice /\ node # INVALID_NODE
    IN  IF is_valid
        THEN UpdateConectedNodes(conn_nodes, conn_index, node, indices)
        ELSE [connected_nodes |-> conn_nodes,
              connected_nodes_index |-> conn_index,
              position |-> positions[agent_id],
              position_index |-> indices]

\* step_agent_fn that tests the action code only for INVALID_TIE_BREAK
StepAgentFnIgnoresInvalidChoice(conn_nodes, conn_index, action, node, indices, agent_id) ==
    LET is_invalid_choice == action = INVALID_TIE_BREAK
        is_valid == ~is_invalid_choice /\ node # INVALID_NODE
    IN  IF is_valid
        THEN UpdateConectedNodes(conn_nodes, conn_index, node, indices)
        ELSE [connected_nodes |-> conn_nodes,
              connected_nodes_index |-> conn_index,
              position |-> positions[agent_id],
              position_index |-> indices]

\* step_agent_fn whose no-move branch hands back the zero arrays step starts
\* from (jnp.zeros_like) instead of the agent's own arrays
StepAgentFnDropsIdle(conn_nodes, conn_index, action, node, indices, agent_id) ==
    LET is_invalid_choice == action = INVALID_CHOICE \/ action = INVALID_TIE_BREAK
        is_valid == ~is_invalid_choice /\ node # INVALID_NODE
    IN  IF is_valid
        THEN UpdateConectedNodes(conn_nodes, conn_index, node, indices)
        ELSE [connected_nodes |-> [s \in Slots |-> 0],
              connected_nodes_index |-> [n \in Nodes |-> 0],
              position |-> positions[agent_id],
              position_index |-> indices]

\* step_agent_fn that tests the action code only for INVALID_CHOICE
StepAgentFnIgnoresTieBreak(conn_nodes, conn_index, action, node, indices, agent_id) ==
    LET is_invalid_choice == action = INVALID_CHOICE
        is_valid == ~is_invalid_choice /\ node # INVALID_NODE
    IN  IF is_valid
        THEN UpdateConectedNodes(conn_nodes, conn_index, node, indices)
        ELSE [connected_nodes |-> conn_nodes,
              connected_nodes_index |-> conn_index,
              position |-> positions[agent_id],
              position_index |-> indices]

\* step.step_agent_fn
StepAgentFn(conn_nodes, conn_index, action, node, indices, agent_id) ==
    LET is_invalid_choice == action = INVALID_CHOICE \/ action = INVALID_TIE_BREAK
        is_valid == ~is_invalid_choice /\ node # INVALID_NODE
    IN  IF is_valid
        THEN UpdateConectedNodes(conn_nodes, conn_index, node, indices)
        ELSE [connected_nodes |-> conn_nodes,
              connected_nodes_index |-> conn_index,
              position |-> positions[agent_id],
              position_index |-> indices]

\* get_finished_agents.done_fun
DoneFun(nodes, conn_nodes, n_comps) ==
    Cardinality({k \in TargetIdx : \E s \in Slots : conn_nodes[s] = nodes[k]}) = n_comps

\* get_finished_agents
GetFinishedAgents(targets, conn_nodes) ==
    [agent \in Agents |-> DoneFun(targets[agent], conn_nodes[agent], NumNodesPerAgent)]

\* the switch of _state_to_timestep with the step limit looked at first: a
\* truncation whenever the limit is reached
TimestepKindHorizonFirst(finished, count) ==
    LET is_done == IF \A agent \in Agents : finished[agent] THEN 1 ELSE 0
        horizon_reached == IF count >= StepLimit THEN 1 ELSE 0
    IN  IF horizon_reached = 1 THEN "truncation"
        ELSE IF is_done = 1 THEN "termination" ELSE "transition"

\* the switch of _state_to_timestep with the horizon reached one step late
\* (step_count > step_limit)
TimestepKindLateHorizon(finished, count) ==
    LET is_done == IF \A agent \in Agents : finished[agent] THEN 1 ELSE 0
        horizon_reached == IF count > StepLimit THEN 1 ELSE 0
        branch == GatherIndex(horizon_reached + is_done * 2, 3)
    IN  <<"transition", "truncation", "termination">>[branch + 1]

\* the jax.lax.switch of _state_to_timestep (the index is clamped)
TimestepKind(finished, count) ==
    LET is_done == IF \A agent \in Agents : finished[agent] THEN 1 ELSE 0
        horizon_reached == IF count >= StepLimit THEN 1 ELSE 0
        branch == GatherIndex(horizon_reached + is_done * 2, 3)
    IN  <<"transition", "truncation", "termination">>[branch + 1]

\* ------------------------------------------------------------ TimeStep
\* An optional argument is a sequence: <<>> when it is not passed (None),
\* <<d>> when the value d is passed. Rewards are in hundredths, discounts are
\* 0 or 1.
None == <<>>

\* jumanji.types.restart (shape = ())
restart == [step_type |-> FIRST, reward |-> 0, discount |-> 1]

\* jumanji.types.transition (shape = ())
transition(rew, disc) ==
    [step_type |-> MID, reward |-> rew,
     discount |-> IF disc # None THEN disc[1] ELSE 1]

\* termination that keeps the discount at 1
terminationUndiscounted(rew) == [step_type |-> LAST, reward |-> rew, discount |-> 1]

\* jumanji.types.termination (shape = ())
termination(rew) == [step_type |-> LAST, reward |-> rew, discount |-> 0]

\* jumanji.types.truncation (shape = ())
truncation(rew, disc) ==
    [step_type |-> LAST, reward |-> rew,
     discount |-> IF disc # None THEN disc[1] ELSE 1]

\* the TimeStep constructor named kind, called with the arguments args
MakeTimestep(kind, args) ==
    CASE kind = "restart" -> restart
      [] kind = "transition" -> transition(args.reward, args.discount)
      [] kind = "termination" -> termination(args.reward)
      [] kind = "truncation" -> truncation(args.reward, args.discount)

\* the reward function of the constructor's default (DefaultRewardFn with
\* reward_values): per agent, the value for an invalid choice when the
\* resolved action is INVALID_CHOICE or INVALID_TIE_BREAK, the value for a
\* connection when the agent has moved onto one of its target nodes it had
\* not visited, the value for no connection otherwise
RewardFn(position, final_actions, targets) ==
    [agent \in Agents |->
        IF final_actions[agent] = INVALID_CHOICE
               \/ final_actions[agent] = INVALID_TIE_BREAK
        THEN RewardNoop
        ELSE IF final_actions[agent] # INVALID_ALREADY_TRAVERSED
                    /\ \E k \in TargetIdx : targets[agent][k] = position[agent]
             THEN RewardConnected
             ELSE RewardTimeStep]

RECURSIVE SumUpTo(_, _)
SumUpTo(array, agent) ==
    IF agent < 0 THEN 0 ELSE array[agent] + SumUpTo(array, agent - 1)

\* jnp.sum over the agents
Sum(array) == SumUpTo(array, NumAgents - 1)

\* the rewards masked with the flags the step has just computed
MaskRewardsLate(values, finished) ==
    [agent \in Agents |->
        values[agent] * (IF finished_agents'[agent] THEN 0 ELSE 1)]

\* _state_to_timestep: self._reward_fn(...) * ~state.finished_agents
MaskRewards(values, finished) ==
    [agent \in Agents |-> values[agent] * (IF finished[agent] THEN 0 ELSE 1)]

\* ------------------------------------------------------------ reset
\* the configuration check that also rejects a total equal to 80% of
\* num_nodes
ConfigurationRejectedAtEqual(num_nodes, num_agents, num_nodes_per_agent) ==
    10 * num_nodes_per_agent * num_agents >= num_nodes * 8

\* the configuration check written as the class docstring words it: num_nodes
\* not greater than 0.8 x num_agents x num_nodes_per_agent
ConfigurationRejectedAsDocumented(num_nodes, num_agents, num_nodes_per_agent) ==
    10 * num_nodes <= 8 * num_agents * num_nodes_per_agent

\* __init__: the configuration check on any arguments. The code compares the
\* integer num_nodes_per_agent * num_agents with the double num_nodes * 0.8;
\* for every num_nodes up to 2,000,000 that comparison has the value of the
\* exact one below.
ConfigurationRejected(num_nodes, num_agents, num_nodes_per_agent) ==
    10 * num_nodes_per_agent * num_agents > num_nodes * 8

\* the constructor arguments of the modelled instance
ModelledConfig ==
    [num_nodes |-> NumNodes, num_agents |-> NumAgents,
     num_nodes_per_agent |-> NumNodesPerAgent]

\* __init__: the configuration check of the modelled instance
ConstructorAccepts == ~(10 * NumNodesPerAgent * NumAgents > NumNodes * 8)

\* what reset draws: the seed of the key, each agent's sorted target nodes
\* and the target it starts on
ResetChoices(types) ==
    {c \in [seed : Keys,
            targets : [Agents -> UNION {TargetsOf(types, a) : a \in Agents}],
            start : [Agents -> TargetIdx]] :
        /\ \A a \in Agents : c.targets[a] \in TargetsOf(types, a)
        /\ \A a \in Agents : \A x, y \in TargetIdx :
              x < y => c.targets[a][x] < c.targets[a][y]}

\* the State reset builds (with the bookkeeping of the last step cleared)
ResetState(types, edges, c) ==
    LET agents_pos == [a \in Agents |-> c.targets[a][c.start[a]]]
        adj == AdjMatrix(edges)
        active == UpdateActiveEdges(
                      [a \in Agents |-> InitialNodeEdges(adj)],
                      agents_pos, types)
        finished == [a \in Agents |-> FALSE]
    IN  [node_types |-> types,
         adj_matrix |-> adj,
         nodes_to_connect |-> c.targets,
         connected_nodes |->
             [a \in Agents |-> [s \in Slots |->
                 IF s = 0 THEN agents_pos[a] ELSE EMPTY_NODE]],
         connected_nodes_index |->
             [a \in Agents |-> [n \in Nodes |->
                 IF n = agents_pos[a] THEN n ELSE EMPTY_NODE]],
         position_index |-> [a \in Agents |-> 0],
         positions |-> agents_pos,
         node_edges |-> active,
         action_mask |-> UpdateActionMask(active, agents_pos, finished),
         finished_agents |-> finished,
         step_count |-> 0,
         key |-> c.seed,
         request |-> [a \in Agents |-> 0],
         outcome |-> [a \in Agents |-> 0],
         next_nodes |-> agents_pos,
         agent_permutation |-> [a \in Agents |-> a],
         timestep |-> "restart",
         agent_rewards |-> [a \in Agents |-> 0],
         arguments |-> [reward |-> 0, discount |-> None],
         step_type |-> restart.step_type,
         reward |-> restart.reward,
         discount |-> restart.discount]

\* reset on the instance (node types, edges) the generator hands over
InitInstance(types, edges) ==
    \E c \in ResetChoices(types) :
       /\ adj_matrix = AdjMatrix(edges)
       /\ \E r \in {ResetState(types, edges, c)} :
              /\ node_types = r.node_types
              /\ nodes_to_connect = r.nodes_to_connect
              /\ connected_nodes = r.connected_nodes
              /\ connected_nodes_index = r.connected_nodes_index
              /\ position_index = r.position_index
              /\ positions = r.positions
              /\ node_edges = r.node_edges
              /\ action_mask = r.action_mask
              /\ finished_agents = r.finished_agents
              /\ step_count = r.step_count
              /\ key = r.key
              /\ request = r.request
              /\ outcome = r.outcome
              /\ next_nodes = r.next_nodes
              /\ agent_permutation = r.agent_permutation
              /\ timestep = r.timestep
              /\ agent_rewards = r.agent_rewards
              /\ arguments = r.arguments
              /\ step_type = r.step_type
              /\ reward = r.reward
              /\ discount = r.discount
              /\ config = ModelledConfig
              /\ construction = "constructed"

Init ==
    /\ ConstructorAccepts
    /\ \E edges \in GraphEdges : InitInstance(GraphTypes, edges)

\* reset on the instance whose last node is an owned node
InitB ==
    /\ ConstructorAccepts
    /\ InitInstance(GraphTypesB, EdgesB)

\* ------------------------------------------------------------ step
\* the State built by step with the targets of the agents that were finished
\* cleared
EpisodeDataClearsFinished ==
    /\ node_types' = node_types
    /\ adj_matrix' = adj_matrix
    /\ nodes_to_connect' =
           [agent \in Agents |-> [k \in TargetIdx |->
               IF finished_agents[agent] THEN EMPTY_NODE
               ELSE nodes_to_connect[agent][k]]]

\* the State built by step: node_types, adj_matrix and nodes_to_connect are
\* the fields of the state passed in
EpisodeData ==
    /\ node_types' = node_types
    /\ adj_matrix' = adj_matrix
    /\ nodes_to_connect' = nodes_to_connect

\* a step counter that stands still once every agent is finished
StepCountStopsWhenDone ==
    step_count' = step_count + (IF \A a \in Agents : finished_agents[a] THEN 0 ELSE 1)

\* _state_to_timestep: state.step_count = state.step_count + 1
StepCount == step_count' = step_count + 1

\* step(state, action), for one action vector
StepAction(action) ==
    \E keys \in {Split(key)} :
    \E trimmed \in {TrimDuplicatedInvalidActions(action, keys.step_key)} :
    \E stepped \in {[agent \in Agents |->
                        StepAgentFn(connected_nodes[agent],
                                    connected_nodes_index[agent],
                                    trimmed.final_actions[agent],
                                    trimmed.nodes[agent],
                                    position_index[agent],
                                    agent)]} :
    \E agents_pos \in {[agent \in Agents |-> stepped[agent].position]} :
    \E active \in {UpdateActiveEdges(node_edges, agents_pos, node_types)} :
    \E finished \in {GetFinishedAgents(
                         nodes_to_connect,
                         [agent \in Agents |-> stepped[agent].connected_nodes])} :
    \E values \in {RewardFn(agents_pos, trimmed.final_actions, nodes_to_connect)} :
         /\ connected_nodes' = [agent \in Agents |-> stepped[agent].connected_nodes]
         /\ connected_nodes_index' =
                [agent \in Agents |-> stepped[agent].connected_nodes_index]
         /\ position_index' = [agent \in Agents |-> stepped[agent].position_index]
         /\ positions' = agents_pos
         /\ node_edges' = active
         /\ action_mask' = UpdateActionMask(active, agents_pos, finished_agents)
         /\ finished_agents' = finished
         /\ StepCount
         /\ key' = keys.key
         /\ request' = action
         /\ outcome' = trimmed.final_actions
         /\ next_nodes' = trimmed.nodes
         /\ agent_permutation' = trimmed.agent_permutation
         /\ timestep' = TimestepKind(finished, step_count + 1)
         /\ agent_rewards' = values
         /\ arguments' = [reward |-> Sum(MaskRewards(values, finished_agents)),
                          discount |-> None]
         /\ \E made \in {MakeTimestep(TimestepKind(finished, step_count + 1),
                                       arguments')} :
               /\ step_type' = made.step_type
               /\ reward' = made.reward
               /\ discount' = made.discount
         /\ EpisodeData
         /\ UNCHANGED <<config, construction>>

\* step with an action vector that conforms to action_spec
Step ==
    /\ step_count < MaxSteps
    /\ \E action \in [Agents -> ActionSet] : StepAction(action)

\* step with an action vector of any int32 values near the range of
\* action_spec: step does not check the action against action_spec
StepWide ==
    /\ step_count < MaxStepsWide
    /\ \E action \in [Agents -> ActionSetWide] : StepAction(action)

Next == Step

Spec == Init /\ [][Next]_vars

NextWide == StepWide

SpecWide == Init /\ [][NextWide]_vars

\* step on the second instance
StepB ==
    /\ step_count < MaxStepsB
    /\ \E action \in [Agents -> ActionSet] : StepAction(action)

NextB == StepB

SpecB == InitB /\ [][NextB]_vars

\* reset on the instance with a self-loop
InitLoop ==
    /\ ConstructorAccepts
    /\ InitInstance(GraphTypes, EdgesLoop)

\* step on the third instance
StepLoop ==
    /\ step_count < MaxStepsLoop
    /\ \E action \in [Agents -> ActionSet] : StepAction(action)

NextLoop == StepLoop

SpecLoop == InitLoop /\ [][NextLoop]_vars

\* ------------------------------------------------------------ construction
\* The life of an environment object from the call of its constructor: any
\* arguments may be passed to __init__; an object that was constructed with
\* the arguments of the modelled instance can then be reset and stepped.
MaxConfigNodes == 12
MaxConfigAgents == 3
MaxConfigNodesPerAgent == 4
MaxStepsConfig == 1

Configs ==
    [num_nodes : 1..MaxConfigNodes, num_agents : 1..MaxConfigAgents,
     num_nodes_per_agent : 1..MaxConfigNodesPerAgent]

\* before __init__ is called: no state exists yet
InitConfig ==
    /\ config \in Configs
    /\ construction = "pending"
    /\ timestep = "none"
    /\ node_types = [n \in Nodes |-> UTILITY_NODE]
    /\ adj_matrix = [v \in Nodes |-> [w \in Nodes |-> FALSE]]
    /\ nodes_to_connect = [a \in Agents |-> [k \in TargetIdx |-> EMPTY_NODE]]
    /\ connected_nodes = [a \in Agents |-> [s \in Slots |-> EMPTY_NODE]]
    /\ connected_nodes_index = [a \in Agents |-> [n \in Nodes |-> EMPTY_NODE]]
    /\ position_index = [a \in Agents |-> 0]
    /\ positions = [a \in Agents |-> 0]
    /\ node_edges = [a \in Agents |-> [v \in Nodes |-> [w \in Nodes |-> EMPTY_NODE]]]
    /\ action_mask = [a \in Agents |-> [n \in Nodes |-> FALSE]]
    /\ finished_agents = [a \in Agents |-> FALSE]
    /\ step_count = 0
    /\ key = 0
    /\ request = [a \in Agents |-> 0]
    /\ outcome = [a \in Agents |-> 0]
    /\ next_nodes = [a \in Agents |-> EMPTY_NODE]
    /\ agent_permutation = [a \in Agents |-> a]
    /\ agent_rewards = [a \in Agents |-> 0]
    /\ arguments = [reward |-> 0, discount |-> None]
    /\ step_type = FIRST
    /\ reward = 0
    /\ discount = 1

\* __init__(num_nodes, ..., num_agents, num_nodes_per_agent, ...)
Construct ==
    /\ construction = "pending"
    /\ construction' =
           IF ConfigurationRejected(config.num_nodes, config.num_agents,
                                    config.num_nodes_per_agent)
           THEN "raised" ELSE "constructed"
    /\ UNCHANGED <<node_types, adj_matrix, nodes_to_connect, connected_nodes,
                   connected_nodes_index, position_index, positions, node_edges,
                   action_mask, finished_agents, step_count, key, request,
                   outcome, next_nodes, agent_permutation, timestep, config,
                   returned>>

\* reset(key) on a constructed object
Reset ==
    /\ construction = "constructed"
    /\ config = ModelledConfig
    /\ timestep = "none"
    /\ \E edges \in GraphEdges :
       \E c \in ResetChoices(GraphTypes) :
       \E r \in {ResetState(GraphTypes, edges, c)} :
          /\ node_types' = r.node_types
          /\ adj_matrix' = r.adj_matrix
          /\ nodes_to_connect' = r.nodes_to_connect
          /\ connected_nodes' = r.connected_nodes
          /\ connected_nodes_index' = r.connected_nodes_index
          /\ position_index' = r.position_index
          /\ positions' = r.positions
          /\ node_edges' = r.node_edges
          /\ action_mask' = r.action_mask
          /\ finished_agents' = r.finished_agents
          /\ step_count' = r.step_count
          /\ key' = r.key
          /\ request' = r.request
          /\ outcome' = r.outcome
          /\ next_nodes' = r.next_nodes
          /\ agent_permutation' = r.agent_permutation
          /\ timestep' = r.timestep
          /\ agent_rewards' = r.agent_rewards
          /\ arguments' = r.arguments
          /\ step_type' = r.step_type
          /\ reward' = r.reward
          /\ discount' = r.discount
    /\ UNCHANGED <<config, construction>>

\* step(state, action) on a state of a constructed object
StepConfig ==
    /\ construction = "constructed"
    /\ timestep # "none"
    /\ step_count < MaxStepsConfig
    /\ \E action \in [Agents -> ActionSet] : StepAction(action)

NextConfig == Construct \/ Reset \/ StepConfig

SpecConfig == InitConfig /\ [][NextConfig]_vars

\* ------------------------------------------------------------ _update_active_edges alone
\* Calls of _update_active_edges(node_edges, position, node_types) on its own.
\* The arguments are held in node_edges, positions and node_types, step_count
\* counts the calls made, and the other variables take no part.
MaxApplications == 2

\* node_edges arguments: for each agent the graph's edge array with the edges
\* into any set of nodes already masked
EdgeViews ==
    LET base == InitialNodeEdges(AdjMatrix(EdgesA))
    IN  {[v \in Nodes |-> [w \in Nodes |->
            IF w \in masked THEN EMPTY_NODE ELSE base[v][w]]] : masked \in SUBSET Nodes}

\* node_types arguments: the graph's typing with any of agent 0's nodes
\* turned into utility nodes
Typings ==
    {[n \in Nodes |-> IF n \in utility THEN UTILITY_NODE ELSE GraphTypes[n]] :
        utility \in SUBSET {n \in Nodes : GraphTypes[n] = 0}}

InitEdges ==
    /\ node_edges \in [Agents -> EdgeViews]
    /\ positions \in [Agents -> Nodes]
    /\ node_types \in Typings
    /\ step_count = 0
    /\ adj_matrix = AdjMatrix(EdgesA)
    /\ nodes_to_connect = [a \in Agents |-> [k \in TargetIdx |-> EMPTY_NODE]]
    /\ connected_nodes = [a \in Agents |-> [s \in Slots |-> EMPTY_NODE]]
    /\ connected_nodes_index = [a \in Agents |-> [n \in Nodes |-> EMPTY_NODE]]
    /\ position_index = [a \in Agents |-> 0]
    /\ action_mask = [a \in Agents |-> [n \in Nodes |-> FALSE]]
    /\ finished_agents = [a \in Agents |-> FALSE]
    /\ key = 0
    /\ request = [a \in Agents |-> 0]
    /\ outcome = [a \in Agents |-> 0]
    /\ next_nodes = [a \in Agents |-> EMPTY_NODE]
    /\ agent_permutation = [a \in Agents |-> a]
    /\ timestep = "restart"
    /\ config = ModelledConfig
    /\ construction = "constructed"
    /\ agent_rewards = [a \in Agents |-> 0]
    /\ arguments = [reward |-> 0, discount |-> None]
    /\ step_type = FIRST
    /\ reward = 0
    /\ discount = 1

\* node_edges = _update_active_edges(node_edges, position, node_types)
ApplyUpdateActiveEdges ==
    /\ step_count < MaxApplications
    /\ node_edges' = UpdateActiveEdges(node_edges, positions, node_types)
    /\ step_count' = step_count + 1
    /\ UNCHANGED <<node_types, adj_matrix, nodes_to_connect, connected_nodes,
                   connected_nodes_index, position_index, positions, action_mask,
                   finished_agents, key, request, outcome, next_nodes,
                   agent_permutation, timestep, config, construction,
                   returned>>

NextEdges == ApplyUpdateActiveEdges

SpecEdges == InitEdges /\ [][NextEdges]_vars

\* ------------------------------------------------------------ TimeStep calls
\* The constructors of jumanji/types.py as functions of their arguments: a
\* reward up to MaxReward hundredths either way, and a discount that is not
\* passed or is 0 or 1.
MaxReward == 10

Calls ==
    [reward : (-MaxReward)..MaxReward,
     discount : {None} \cup {<<d>> : d \in {0, 1}}]

\* the arguments of a call, before the call
InitTimeStep ==
    /\ arguments \in Calls
    /\ timestep = "none"
    /\ step_type = FIRST
    /\ reward = 0
    /\ discount = 1
    /\ agent_rewards = [a \in Agents |-> 0]
    /\ node_types = [n \in Nodes |-> UTILITY_NODE]
    /\ adj_matrix = [v \in Nodes |-> [w \in Nodes |-> FALSE]]
    /\ nodes_to_connect = [a \in Agents |-> [k \in TargetIdx |-> EMPTY_NODE]]
    /\ connected_nodes = [a \in Agents |-> [s \in Slots |-> EMPTY_NODE]]
    /\ connected_nodes_index = [a \in Agents |-> [n \in Nodes |-> EMPTY_NODE]]
    /\ position_index = [a \in Agents |-> 0]
    /\ positions = [a \in Agents |-> 0]
    /\ node_edges = [a \in Agents |-> [v \in Nodes |-> [w \in Nodes |-> EMPTY_NODE]]]
    /\ action_mask = [a \in Agents |-> [n \in Nodes |-> FALSE]]
    /\ finished_agents = [a \in Agents |-> FALSE]
    /\ step_count = 0
    /\ key = 0
    /\ request = [a \in Agents |-> 0]
    /\ outcome = [a \in Agents |-> 0]
    /\ next_nodes = [a \in Agents |-> EMPTY_NODE]
    /\ agent_permutation = [a \in Agents |-> a]
    /\ config = ModelledConfig
    /\ construction = "constructed"

\* one call of the constructor named kind
Call(kind) ==
    /\ timestep = "none"
    /\ timestep' = kind
    /\ \E made \in {MakeTimestep(kind, arguments)} :
          /\ step_type' = made.step_type
          /\ reward' = made.reward
          /\ discount' = made.discount
    /\ UNCHANGED <<node_types, adj_matrix, nodes_to_connect, connected_nodes,
                   connected_nodes_index, position_index, positions, node_edges,
                   action_mask, finished_agents, step_count, key, request,
                   outcome, next_nodes, agent_permutation, config, construction,
                   agent_rewards, arguments>>

\* restart(observation)
CallRestart == Call("restart")

\* transition(reward, observation, discount)
CallTransition == Call("transition")

\* termination(reward, observation)
CallTermination == Call("termination")

\* truncation(reward, observation, discount)
CallTruncation == Call("truncation")

NextTimeStep == CallRestart \/ CallTransition \/ CallTermination \/ CallTruncation

SpecTimeStep == InitTimeStep /\ [][NextTimeStep]_vars

\* ------------------------------------------------------------ properties
Stepped == timestep # "restart"

\* index of an agent in the permutation the last step drew
PermIndex(perm, agent) == CHOOSE k \in Agents : perm[k] = agent

Visited(conn_index, agent) == {n \in Nodes : conn_index[agent][n] # EMPTY_NODE}

\* C1: no double-grant. In every step, two distinct agents whose returned
\* action code is >= 0 (ACCEPTED) have different destination nodes.
C1_NoDoubleGrant ==
    Stepped =>
        \A i, j \in Agents :
            (i # j /\ outcome[i] >= 0 /\ outcome[j] >= 0)
                => next_nodes[i] # next_nodes[j]

\* C1 witness: two agents resolved to the same node in one step, one was
\* accepted and the other lost the tie-break.
C1_Witness ==
    \E i, j \in Agents :
        /\ i # j
        /\ next_nodes[i] \in Nodes /\ next_nodes[i] = next_nodes[j]
        /\ outcome[i] >= 0 /\ outcome[j] = INVALID_TIE_BREAK

C3_ExclusiveUtility ==
    \A u \in Nodes :
        node_types[u] = UTILITY_NODE
            => Cardinality({a \in Agents : u \in Visited(connected_nodes_index, a)}) <= 1

\* C3 witness: an agent has stood on a utility node and left it, and another
\* agent standing next to that node asked for it and got INVALID_CHOICE.
C3_Witness ==
    \E a, b \in Agents : \E u \in Nodes :
        /\ a # b
        /\ node_types[u] = UTILITY_NODE
        /\ u \in Visited(connected_nodes_index, a)
        /\ positions[a] # u
        /\ request[b] = u /\ outcome[b] = INVALID_CHOICE
        /\ adj_matrix[positions[b]][u]
        /\ ~finished_agents[b]

\* C4: edge visibility. In every state returned by reset or step, for every
\* agent j standing on a UTILITY node u and every other agent i, node_edges[i]
\* holds no edge (v, u); and the step leaves the edges into u of j's own view
\* as they were.
C4_State ==
    \A j \in Agents :
        node_types[positions[j]] = UTILITY_NODE
            => \A i \in Agents \ {j} : \A v \in Nodes :
                   node_edges[i][v][positions[j]] = EMPTY_NODE

C4_Step ==
    \A j \in Agents :
        node_types[positions'[j]] = UTILITY_NODE
            => \A v \in Nodes :
                   node_edges'[j][v][positions'[j]] = node_edges[j][v][positions'[j]]

C4_EdgeVisibility == [](C4_State) /\ [][C4_Step]_vars

\* C4 witness: an agent stands on a utility node that it can still see edges
\* into, while another agent stands on a neighbour of that node.
C4_Witness ==
    \E i, j \in Agents :
        /\ i # j
        /\ node_types[positions[j]] = UTILITY_NODE
        /\ adj_matrix[positions[i]][positions[j]]
        /\ \E v \in Nodes : node_edges[j][v][positions[j]] = positions[j]

\* C5: finished monotonicity. Once finished_agents[i] is true in a returned
\* state it is true in every later state of the episode.
C5_FinishedMonotone ==
    [][\A i \in Agents : finished_agents[i] => finished_agents'[i]]_vars

\* C5 witness: an agent that was finished before the last step (its request
\* resolved to a node and was answered with NO_OP) is still finished.
C5_Witness ==
    \E i \in Agents :
        /\ finished_agents[i]
        /\ next_nodes[i] \in Nodes
        /\ outcome[i] = INVALID_CHOICE
        /\ step_count >= 2

\* C6 as stated: after a terminal timestep (DONE or TRUNCATED) a further step
\* leaves connected_nodes and finished_agents of every agent unchanged.
C6_Original ==
    [][(timestep = "termination" \/ timestep = "truncation")
          => (/\ connected_nodes' = connected_nodes
              /\ finished_agents' = finished_agents)]_vars

\* C6 amended: after a DONE timestep (every agent finished) a further step
\* leaves connected_nodes and finished_agents of every agent unchanged.
C6_DoneAbsorbing ==
    [][timestep = "termination"
          => (/\ connected_nodes' = connected_nodes
              /\ finished_agents' = finished_agents)]_vars

\* C6 witness: a step was taken from a DONE state, with requests that
\* resolved to nodes, while the agents' buffers still had room.
C6_Witness ==
    /\ timestep = "termination"
    /\ \A i \in Agents :
          /\ outcome[i] = INVALID_CHOICE
          /\ next_nodes[i] \in Nodes
          /\ connected_nodes_index[i][next_nodes[i]] = EMPTY_NODE
          /\ position_index[i] + 1 < StepLimit

\* C7: a finished agent resolves to NO_OP and is frozen: the step returns -1
\* for it whatever it requested and leaves its position, connected_nodes,
\* connected_nodes_index and position_index unchanged.
C7_FinishedFrozen ==
    [][\A i \in Agents :
          finished_agents[i]
              => (/\ outcome'[i] = INVALID_CHOICE
                  /\ positions'[i] = positions[i]
                  /\ connected_nodes'[i] = connected_nodes[i]
                  /\ connected_nodes_index'[i] = connected_nodes_index[i]
                  /\ position_index'[i] = position_index[i])]_vars

\* C7 witness: a finished agent asked for a neighbour it had not visited,
\* that no other agent asked for, and stayed where it was.
C7_Witness ==
    \E i \in Agents :
        /\ finished_agents[i]
        /\ outcome[i] = INVALID_CHOICE
        /\ next_nodes[i] \in Nodes
        /\ request[i] = next_nodes[i]
        /\ connected_nodes_index[i][next_nodes[i]] = EMPTY_NODE
        /\ positions[i] # next_nodes[i]
        /\ \A j \in Agents \ {i} : next_nodes[j] # next_nodes[i]

\* C8 as stated: finished agents are excluded from conflicts. An unfinished
\* agent is marked TIE_BREAK_LOST only if some other agent that was not
\* finished before the step resolved to the same destination.
C8_Original ==
    [][\A i \in Agents :
          (~finished_agents[i] /\ outcome'[i] = INVALID_TIE_BREAK)
              => (\E j \in Agents \ {i} :
                     ~finished_agents[j] /\ next_nodes'[j] = next_nodes'[i])]_vars

\* C9: tie-break priority. An agent is ACCEPTED for a node only if it comes
\* before every other agent that resolved to the same node in the step's
\* one permutation.
C9_TieBreakPriority ==
    Stepped =>
        \A i, j \in Agents :
            (i # j /\ outcome[i] >= 0 /\ next_nodes[j] = next_nodes[i])
                => PermIndex(agent_permutation, i) < PermIndex(agent_permutation, j)

\* C9 witness: both agents resolved to the same node, the permutation put
\* agent 1 first, and agent 1 was accepted.
C9_Witness ==
    /\ Stepped
    /\ agent_permutation[0] = 1
    /\ next_nodes[0] = next_nodes[1]
    /\ outcome[1] >= 0
    /\ outcome[0] = INVALID_TIE_BREAK

\* C10 as stated: every unfinished agent whose resolved destination was
\* claimed by an agent earlier in the permutation ends the step with
\* TIE_BREAK_LOST and does not move.
C10_Original ==
    [][\A j \in Agents :
          (/\ ~finished_agents[j]
           /\ next_nodes'[j] \in Nodes
           /\ \E i \in Agents \ {j} :
                 /\ next_nodes'[i] = next_nodes'[j]
                 /\ PermIndex(agent_permutation', i) < PermIndex(agent_permutation', j))
          => (/\ outcome'[j] = INVALID_TIE_BREAK
              /\ positions'[j] = positions[j])]_vars

\* C11 as stated: an unfinished agent whose requested index has no edge from
\* its position in its own view gets INVALID_CHOICE, whatever nodes it has
\* visited, and takes no part in the tie-break: no other agent loses a
\* tie-break unless a third agent resolved to that agent's node.
C11_Original ==
    [][\A i \in Agents :
          (~finished_agents[i] /\ next_nodes'[i] = EMPTY_NODE)
              => (/\ outcome'[i] = INVALID_CHOICE
                  /\ \A j \in Agents \ {i} :
                        outcome'[j] = INVALID_TIE_BREAK
                            => \E k \in Agents \ {i, j} :
                                   next_nodes'[k] = next_nodes'[j])]_vars

\* C12 as stated: out-of-range requests degrade gracefully. For an unfinished
\* agent a requested index outside 0..num_nodes-1 yields the outcome
\* INVALID_CHOICE and leaves the agent's position and connected_nodes
\* unchanged.
C12_Original ==
    [][\A i \in Agents :
          (~finished_agents[i] /\ request'[i] \notin Nodes)
              => (/\ outcome'[i] = INVALID_CHOICE
                  /\ positions'[i] = positions[i]
                  /\ connected_nodes'[i] = connected_nodes[i])]_vars

\* C13: controller next-state rule. After each step the returned timestep is
\* a termination whenever every updated finished flag is true, also when the
\* incremented step_count has reached step_limit; it is a truncation when
\* step_count >= step_limit and some agent is unfinished; otherwise it is a
\* mid-episode transition.
C13_NextStateRule ==
    Stepped =>
        LET all_finished == \A i \in Agents : finished_agents[i]
            limit_reached == step_count >= StepLimit
        IN  timestep = IF all_finished THEN "termination"
                       ELSE IF limit_reached THEN "truncation"
                       ELSE "transition"

\* C13 witness: the last agent finished on the very step that reached the
\* step limit, and the timestep is a termination.
C13_Witness ==
    /\ timestep = "termination"
    /\ step_count = StepLimit
    /\ \A i \in Agents : finished_agents[i]
    /\ \E i \in Agents :
          /\ outcome[i] >= 0
          /\ positions[i] = next_nodes[i]
          /\ \E k \in TargetIdx : nodes_to_connect[i][k] = next_nodes[i]

\* C14: bounded episode. Whatever the reset state and the action vectors, the
\* step_limit-th step returns a terminal timestep (a termination or a
\* truncation), and no step that leaves step_count >= step_limit returns a
\* mid-episode transition.
C14_BoundedEpisode ==
    (Stepped /\ step_count >= StepLimit)
        => (timestep = "termination" \/ timestep = "truncation")

\* C14 witness: the step_limit-th step of an episode in which no agent has
\* finished, and in which an agent was still granted a move on that step.
C14_Witness ==
    /\ step_count = StepLimit
    /\ timestep = "truncation"
    /\ \A i \in Agents : ~finished_agents[i]
    /\ \E i \in Agents : outcome[i] >= 0 /\ positions[i] = next_nodes[i]

\* C15 as stated: in every state returned by step, finished_agents[i] is true
\* if and only if every node of nodes_to_connect[i] is recorded as visited in
\* connected_nodes_index[i], also when the move that reaches the last missing
\* target happens on the step_limit-th step.
C15_Original ==
    Stepped =>
        \A i \in Agents :
            finished_agents[i]
                <=> (\A k \in TargetIdx :
                        nodes_to_connect[i][k] \in Visited(connected_nodes_index, i))

\* C16: monotone connectivity. For every agent and every step, the set of
\* nodes marked visited in connected_nodes_index after the step is a superset
\* of the set before the step.
C16_MonotoneConnectivity ==
    [][\A i \in Agents :
          Visited(connected_nodes_index, i) \subseteq Visited(connected_nodes_index', i)]_vars

\* C16 witness: an agent was granted a move onto a new node by the last step
\* and its record holds that node, its start node and a node visited between.
C16_Witness ==
    \E i \in Agents :
        /\ outcome[i] >= 0
        /\ positions[i] = next_nodes[i]
        /\ connected_nodes[i][0] # next_nodes[i]
        /\ connected_nodes[i][0] \in Visited(connected_nodes_index, i)
        /\ Cardinality(Visited(connected_nodes_index, i)) >= 3

\* C17: idempotent edge masking. For every per-agent edge view E, position
\* vector P and node typing T, _update_active_edges applied to its own result
\* with the same P and T gives that result again.
C17_IdempotentMasking ==
    UpdateActiveEdges(UpdateActiveEdges(node_edges, positions, node_types),
                      positions, node_types)
        = UpdateActiveEdges(node_edges, positions, node_types)

\* C17 witness: the update has been applied twice with both agents standing
\* on utility nodes: each agent's view has lost the edges into the other
\* agent's node and none of the edges into its own.
C17_Witness ==
    /\ step_count = MaxApplications
    /\ \A j \in Agents : node_types[positions[j]] = UTILITY_NODE
    /\ \E i, j \in Agents :
          /\ positions[i] # positions[j]
          /\ adj_matrix[positions[i]][positions[j]]
          /\ node_edges[j][positions[i]][positions[j]] = positions[j]
          /\ node_edges[i][positions[j]][positions[i]] = positions[i]
          /\ \A v \in Nodes : node_edges[i][v][positions[j]] = EMPTY_NODE
          /\ \A v \in Nodes : node_edges[j][v][positions[i]] = EMPTY_NODE

\* C18: edge masks only shrink. For every agent and every step, every edge
\* absent from node_edges[i] before the step is absent after it; so an edge
\* removed because another agent claimed a utility node stays removed after
\* that agent moves away.
C18_MasksOnlyShrink ==
    [][\A i \in Agents : \A v, w \in Nodes :
          node_edges[i][v][w] = EMPTY_NODE => node_edges'[i][v][w] = EMPTY_NODE]_vars

\* C18 witness: an agent has claimed a utility node and moved away from it,
\* no agent stands on the node, and another agent's view still holds none of
\* the graph's edges into it.
C18_Witness ==
    \E a, b \in Agents : \E u \in Nodes :
        /\ a # b
        /\ node_types[u] = UTILITY_NODE
        /\ connected_nodes_index[a][u] = u
        /\ \A c \in Agents : positions[c] # u
        /\ \E v \in Nodes : adj_matrix[v][u]
        /\ \A v \in Nodes : node_edges[b][v][u] = EMPTY_NODE

\* C19: owned nodes are never masked. In every reachable state and for every
\* agent, every edge of the original graph whose destination is a non-utility
\* node is still present in that agent's node_edges, whichever agents stand
\* on or have visited the node.
C19_OwnedNeverMasked ==
    \A i \in Agents : \A v, w \in Nodes :
        (adj_matrix[v][w] /\ node_types[w] # UTILITY_NODE)
            => node_edges[i][v][w] = w

\* C19 witness: an agent stands on a node owned by another agent, which that
\* other agent has visited too, and the owner still sees an edge into it.
C19_Witness ==
    \E a, b \in Agents :
        /\ a # b
        /\ node_types[positions[a]] = b
        /\ outcome[a] >= 0 /\ next_nodes[a] = positions[a]
        /\ connected_nodes_index[b][positions[a]] = positions[a]
        /\ \E v \in Nodes : node_edges[b][v][positions[a]] = positions[a]

\* C20 as stated: two-step contention. Step 1: two unfinished agents both
\* have an edge to the same unvisited utility node u, both request u, and the
\* permutation is [1,0]: agent 1 is ACCEPTED(u) and agent 0 is
\* TIE_BREAK_LOST. Step 2: agent 0 requests u again: its outcome is
\* INVALID_CHOICE.
C20_FirstStep ==
    \A u \in Nodes :
        (/\ node_types[u] = UTILITY_NODE
         /\ agent_permutation'[0] = 1
         /\ \A i \in Agents :
               /\ ~finished_agents[i]
               /\ connected_nodes_index[i][u] = EMPTY_NODE
               /\ node_edges[i][positions[i]][u] = u
               /\ request'[i] = u)
        => (/\ outcome'[1] = u /\ positions'[1] = u
            /\ outcome'[0] = INVALID_TIE_BREAK)

C20_SecondStep ==
    \A u \in Nodes :
        (/\ node_types[u] = UTILITY_NODE
         /\ agent_permutation[0] = 1
         /\ \A i \in Agents : request[i] = u /\ next_nodes[i] = u
         /\ outcome[1] = u /\ outcome[0] = INVALID_TIE_BREAK
         /\ request'[0] = u)
        => outcome'[0] = INVALID_CHOICE

C20_Original == [][C20_FirstStep /\ C20_SecondStep]_vars

\* C21: configuration error. The constructor raises ValueError if and only if
\* num_nodes_per_agent * num_agents exceeds 80% of num_nodes
\* (10*A*K > 8*N): with a total equal to 80% of num_nodes or smaller the
\* object is constructed. The error is raised by the constructor alone: what
\* the constructor did is not changed by a later reset or step.
C21_State ==
    construction # "pending"
        => (construction = "raised"
               <=> 10 * config.num_agents * config.num_nodes_per_agent
                       > 8 * config.num_nodes)

C21_Step == construction # "pending" => construction' = construction

C23_Step ==
    \E drawn \in {Unrank(key % NumPermutations, [a \in 1..NumAgents |-> a - 1])} :
    \E perm \in {[index \in Agents |-> drawn[index + 1]]} :
    \E trimmed \in {TrimResolved(
                        request',
                        [agent \in Agents |->
                            GetAgentNode(node_edges[agent], positions[agent],
                                         request'[agent])],
                        perm)} :
    \E stepped \in {[agent \in Agents |->
                        StepAgentFn(connected_nodes[agent],
                                    connected_nodes_index[agent],
                                    trimmed.final_actions[agent],
                                    trimmed.nodes[agent],
                                    position_index[agent], agent)]} :
        /\ key' = key \div NumPermutations
        /\ agent_permutation' = perm
        /\ outcome' = trimmed.final_actions
        /\ next_nodes' = trimmed.nodes
        /\ positions' = [agent \in Agents |-> stepped[agent].position]
        /\ connected_nodes' = [agent \in Agents |-> stepped[agent].connected_nodes]
        /\ connected_nodes_index' =
               [agent \in Agents |-> stepped[agent].connected_nodes_index]
        /\ position_index' = [agent \in Agents |-> stepped[agent].position_index]
        /\ node_edges' = UpdateActiveEdges(node_edges, positions', node_types)
        /\ finished_agents' = GetFinishedAgents(nodes_to_connect, connected_nodes')
        /\ action_mask' = UpdateActionMask(node_edges', positions', finished_agents)
        /\ step_count' = step_count + 1
        /\ timestep' = TimestepKind(finished_agents', step_count')

C24_ImmutableEpisodeData ==
    [][/\ node_types' = node_types
       /\ adj_matrix' = adj_matrix
       /\ (nodes_to_connect' = nodes_to_connect)]_vars

\* C24 witness: at the end of an episode in which every agent has moved and
\* finished, the state still holds the generator's node types, graph and
\* target nodes.
C24_Witness ==
    /\ step_count = MaxSteps
    /\ \A a \in Agents : finished_agents[a] /\ position_index[a] > 0
    /\ node_types = GraphTypes
    /\ adj_matrix = AdjMatrix(EdgesA)
    /\ \A a \in Agents : nodes_to_connect[a] \in TargetsOf(GraphTypes, a)

\* C25 as stated: a contested node is granted to exactly one requester. In
\* any step where two or more agents resolve to the same destination node,
\* exactly one of them ends the step ACCEPTED (code >= 0) for that node, also
\* when the requester that comes first in the permutation is finished or has
\* already visited the node.
C25_Original ==
    [][\A n \in Nodes :
          Cardinality({i \in Agents : next_nodes'[i] = n}) >= 2
              => Cardinality({i \in Agents :
                                 next_nodes'[i] = n /\ outcome'[i] >= 0}) = 1]_vars

\* C26 as stated: the connected_nodes buffer is never exceeded. In every
\* state reachable within step_limit steps of reset, position_index[i] is
\* below step_limit for every agent, so the node an agent has just moved onto
\* is the entry of connected_nodes[i] at position_index[i].
C26_Original ==
    step_count <= StepLimit
        => \A i \in Agents :
              /\ position_index[i] < StepLimit
              /\ connected_nodes[i][position_index[i]] = positions[i]

\* C27 as stated: connected_nodes records each node at most once. In every
\* reachable state the non-empty entries of connected_nodes[i] are pairwise
\* distinct for every agent, and position_index[i] + 1 is the number of
\* distinct nodes the agent has visited.
C27_Original ==
    \A i \in Agents :
        /\ \A s, u \in Slots :
              (s # u /\ connected_nodes[i][s] # EMPTY_NODE)
                  => connected_nodes[i][s] # connected_nodes[i][u]
        /\ position_index[i] + 1 = Cardinality(Visited(connected_nodes_index, i))

\* C28 as stated: reverse-lookup consistency. In every reachable state and
\* for every agent, the set of nodes marked visited in
\* connected_nodes_index[i] equals the set of non-empty entries of
\* connected_nodes[i].
C28_Original ==
    \A i \in Agents :
        Visited(connected_nodes_index, i)
            = {connected_nodes[i][s] : s \in Slots} \ {EMPTY_NODE}

\* C29 as stated: effect of an ACCEPTED move. When agent i's outcome is
\* ACCEPTED(n), after the step positions[i] = n, n is marked in
\* connected_nodes_index[i], n is the newest entry of connected_nodes[i], and
\* connected_nodes[i] has grown by exactly one entry, all earlier entries
\* unchanged.
C29_Original ==
    [][\A i \in Agents :
          outcome'[i] >= 0
              => (/\ positions'[i] = next_nodes'[i]
                  /\ connected_nodes_index'[i][next_nodes'[i]] = next_nodes'[i]
                  /\ position_index'[i] = position_index[i] + 1
                  /\ position_index'[i] \in Slots
                  /\ connected_nodes[i][position_index'[i]] = EMPTY_NODE
                  /\ connected_nodes'[i][position_index'[i]] = next_nodes'[i]
                  /\ \A s \in Slots :
                        s # position_index'[i]
                            => connected_nodes'[i][s] = connected_nodes[i][s])]_vars

\* C30: rejected moves change nothing for the agent. When agent i's outcome
\* in a step is INVALID_CHOICE or TIE_BREAK_LOST, its position,
\* connected_nodes, connected_nodes_index and position_index are the same
\* after the step as before it.
C30_RejectedMovesKeepState ==
    [][\A i \in Agents :
          (outcome'[i] = INVALID_CHOICE \/ outcome'[i] = INVALID_TIE_BREAK)
              => (/\ positions'[i] = positions[i]
                  /\ connected_nodes'[i] = connected_nodes[i]
                  /\ connected_nodes_index'[i] = connected_nodes_index[i]
                  /\ position_index'[i] = position_index[i])]_vars

\* C30 witness: an agent that had moved before lost the tie-break for a node
\* it has an edge to and has not visited, and stands where it stood.
C30_Witness ==
    \E i \in Agents :
        /\ outcome[i] = INVALID_TIE_BREAK
        /\ next_nodes[i] \in Nodes
        /\ positions[i] # next_nodes[i]
        /\ connected_nodes_index[i][next_nodes[i]] = EMPTY_NODE
        /\ position_index[i] > 0
        /\ position_index[i] < StepLimit
        /\ connected_nodes[i][position_index[i]] = positions[i]

\* ------------------------------------------------------------ C31
\* C31 (as stated): when an unfinished agent's requested index resolves, in
\* its own view, to the node the agent stands on, the step's outcome for the
\* agent is ALREADY_TRAVERSED and the agent's connected_nodes is not extended.
C31_Original ==
    [][\A i \in Agents :
          (/\ ~finished_agents[i]
           /\ GetAgentNode(node_edges[i], positions[i], request'[i]) = positions[i])
          => (/\ outcome'[i] = INVALID_ALREADY_TRAVERSED
              /\ connected_nodes'[i] = connected_nodes[i])]_vars

\* ------------------------------------------------------------ C32
\* C32 (as stated): a step taken from a state in which every agent is
\* finished returns NO_OP (-1) for every agent and changes no field of the
\* state other than step_count and key.
C32_Original ==
    [][(\A a \in Agents : finished_agents[a])
          => (/\ \A a \in Agents : outcome'[a] = INVALID_CHOICE
              /\ UNCHANGED <<node_types, adj_matrix, nodes_to_connect,
                             connected_nodes, connected_nodes_index,
                             position_index, positions, node_edges,
                             action_mask, finished_agents>>)]_vars

\* ------------------------------------------------------------ C35
\* C35 (as stated): in every state returned by step, every agent whose
\* finished_agents flag is set has an all-False action_mask row, the state
\* returned by the step in which the agent became finished included.
C35_Original ==
    Stepped =>
        \A i \in Agents :
            finished_agents[i] => \A n \in Nodes : ~action_mask[i][n]

\* ------------------------------------------------------------ C33
\* C33: step_count is 0 in the state reset returns, and every call of step
\* adds exactly 1 to it whatever the outcomes are, so step_count is the number
\* of steps taken since reset.
C33_StepCounter ==
    /\ [](timestep = "restart" => step_count = 0)
    /\ [][step_count' = step_count + 1]_vars

\* C33 witness: MaxSteps steps were counted, the last of them taken after the
\* episode had ended with every agent finished and resolved to NO_OP.
C33_Witness ==
    /\ step_count = MaxSteps
    /\ timestep = "termination"
    /\ \A a \in Agents : finished_agents[a] /\ outcome[a] = INVALID_CHOICE

\* ------------------------------------------------------------ C34
\* C34: in every state returned by reset or step, the action_mask row of an
\* agent that is not finished is true exactly at the nodes its own view
\* node_edges[i] joins to its position; and an unfinished agent that requests
\* an index its mask allows does not get INVALID_CHOICE from the next step.
C34_State ==
    \A i \in Agents :
        ~finished_agents[i] =>
            \A n \in Nodes :
                action_mask[i][n] <=> (node_edges[i][positions[i]][n] # EMPTY_NODE)

C34_Step ==
    \A i \in Agents :
        (~finished_agents[i] /\ action_mask[i][request'[i]])
            => outcome'[i] # INVALID_CHOICE

C34_MaskOfUnfinished == [](C34_State) /\ [][C34_Step]_vars

\* C34 witness: an unfinished agent asked for a node its view (and so its
\* mask) offered and lost the tie-break for it, and now stands next to a
\* utility node that its mask hides because another agent holds it.
C34_Witness ==
    /\ Stepped
    /\ \E i \in Agents :
          /\ ~finished_agents[i]
          /\ outcome[i] = INVALID_TIE_BREAK
          /\ next_nodes[i] = request[i]
          /\ \E n \in Nodes :
                /\ adj_matrix[positions[i]][n]
                /\ node_types[n] = UTILITY_NODE
                /\ ~action_mask[i][n]

\* ------------------------------------------------------------ C36
\* C36: whenever a step (with requested indices in 0..num_nodes-1) changes an
\* agent's position from p to q, (p, q) is an edge of the episode's graph and
\* was an edge of the agent's own view before the step.
C36_MovesFollowEdges ==
    [][\A i \in Agents :
          positions'[i] # positions[i] =>
              (/\ adj_matrix[positions[i]][positions'[i]]
               /\ node_edges[i][positions[i]][positions'[i]] = positions'[i])]_vars

\* C36 witness: in the second step one agent moved along an edge onto a new
\* node while the other asked for a node its view has no edge to and stayed.
C36_Witness ==
    /\ step_count = 2
    /\ \E i, j \in Agents :
          /\ i # j
          /\ outcome[i] = request[i]
          /\ positions[i] = request[i]
          /\ position_index[i] = 2
          /\ connected_nodes[i][1] # positions[i]
          /\ adj_matrix[connected_nodes[i][1]][positions[i]]
          /\ ~finished_agents[j]
          /\ outcome[j] = INVALID_CHOICE
          /\ next_nodes[j] = INVALID_NODE
          /\ positions[j] # request[j]

\* ------------------------------------------------------------ C37
\* C37: in every state reachable from reset, each agent's position is marked
\* as visited in the agent's connected_nodes_index.
C37_PositionRecorded ==
    \A i \in Agents : connected_nodes_index[i][positions[i]] = positions[i]

\* C37 witness: an agent has made two moves onto new nodes, stands on the
\* second of them, and the node is marked in its connected_nodes_index.
C37_Witness ==
    \E i \in Agents :
        /\ position_index[i] = 2
        /\ outcome[i] = positions[i]
        /\ connected_nodes[i][0] # positions[i]
        /\ connected_nodes[i][1] # positions[i]
        /\ connected_nodes[i][1] # connected_nodes[i][0]
        /\ connected_nodes_index[i][positions[i]] = positions[i]

\* ------------------------------------------------------------ C38
\* C38: the reward of a step's TimeStep is the sum of what the reward function
\* returned for the agents that were not finished before the step: an agent
\* already finished contributes zero, an agent that becomes finished in this
\* step still contributes its reward.
C38_RewardMasking ==
    [][reward' = Sum([a \in Agents |->
                         IF finished_agents[a] THEN 0 ELSE agent_rewards'[a]])]_vars

\* C38 witness: the last step was taken with agent j already finished (its
\* outcome is NO_OP) and made agent i finished by a move onto its last target;
\* the reward function returned a non-zero value for both, and the TimeStep's
\* reward is agent i's value alone.
C38_Witness ==
    /\ Stepped
    /\ \E i, j \in Agents :
          /\ i # j
          /\ finished_agents[j]
          /\ outcome[j] = INVALID_CHOICE
          /\ agent_rewards[j] # 0
          /\ finished_agents[i]
          /\ outcome[i] = positions[i]
          /\ agent_rewards[i] = RewardConnected
          /\ reward = agent_rewards[i]

====
